---- MODULE Spec2Model ----
(***************************************************************************)
(* The cache storage contract of the dashboard backend:                    *)
(*   backend/server.py      cache_resource, get_cached_resource and the    *)
(*                          /cache routes built on them                    *)
(*   scripts/clear_cache.py clear_backend_cache and main                   *)
(* The collection db.cache is a sequence of documents in natural           *)
(* (insertion) order.  Request handlers run as concurrent coroutines and   *)
(* interleave at each await of a storage call.                             *)
(***************************************************************************)
EXTENDS Integers, Sequences, FiniteSets, TLC

\* ------------------------------------------------------------------ bounds
MaxClock == 3    \* puts started in one behaviour (each reads the time once)
MaxDocs == 102   \* largest collection the status listing is applied to

\* to_list(100) in get_cache_status
StatusLimit == 100

\* concurrent request handlers (coroutines of the one server process)
Procs == {"h1", "h2"}

\* Python's None where a document is expected, and where a time is expected
None == [none |-> TRUE]
NoTime == 0 - 1

\* ------------------------------------------------------------ input sets
SheetNames == {"Budget2024"}
FolderIds == {"F1"}

\* Payloads are opaque to the store; the empty containers are included.
SheetPayloads == {"[]", "[{row:1}]"}
DrivePayloads == {"{}", "{folders:[A],files:[]}"}

SheetKeys == {<<"sheet", n>> : n \in SheetNames}
DriveKeys == {<<"drive_folder", f>> : f \in FolderIds}
Keys == SheetKeys \cup DriveKeys

PayloadsOf(key) == IF key[1] = "sheet" THEN SheetPayloads ELSE DrivePayloads

VARIABLES
    cache,          \* db.cache (server.py:71, 84, 178; clear_cache.py:100):
                    \* sequence of documents, natural order
    clock,          \* datetime.now(timezone.utc) (server.py:68), one tick per put
    pc,             \* per handler: "idle", "upsert" (awaiting update_one,
                    \* server.py:71), "insert" (its upsert found no match)
    req,            \* per handler: the cache_doc of the put in flight (server.py:64)
    resp,           \* what the operation that completed last gave its caller:
                    \* an HTTP response, or the output of a run of clear_cache.py
    obs,            \* what was true when resp was produced (history)
    lastCommitted,  \* per key: cache_doc of the put the store committed last (history)
    lastAcked,      \* per key: cache_doc of the put answered success last (history)
    everCommitted,  \* keys for which some put has committed (history)
    sinceClear      \* a clear succeeded and no put has committed since (history)

vars == <<cache, clock, pc, req, resp, obs,
          lastCommitted, lastAcked, everCommitted, sinceClear>>

\* --------------------------------------------------------- the collection
KeyOf(doc) == <<doc.resource_type, doc.resource_id>>

\* indexes of the documents matching {'resource_type': .., 'resource_id': ..}
Matching(coll, key) == {i \in 1..Len(coll) : KeyOf(coll[i]) = key}

FirstMatch(coll, key) ==
    CHOOSE i \in Matching(coll, key) : \A j \in Matching(coll, key) : i <= j

\* find_one with the filter dropped: any first document is returned
find_one_unfiltered(coll, key) ==
    IF coll = << >> THEN None ELSE coll[1]

\* db.cache.find_one(filter, {'_id': 0}): first match in natural order, or None
find_one(coll, key) ==
    IF Matching(coll, key) = {} THEN None ELSE coll[FirstMatch(coll, key)]

\* {'$set': cache_doc} applied to one document
SetFields(doc, cache_doc) ==
    [f \in DOMAIN doc \cup DOMAIN cache_doc |->
        IF f \in DOMAIN cache_doc THEN cache_doc[f] ELSE doc[f]]

\* update_one on a collection holding a match: only the first match is updated
update_matched(coll, key, cache_doc) ==
    [coll EXCEPT ![FirstMatch(coll, key)] = SetFields(@, cache_doc)]

\* the insert half of update_one(..., upsert=True) when the filter matched nothing
upsert_insert(coll, cache_doc) == Append(coll, cache_doc)

\* delete_many with a filter on the resource type: only sheets are removed
delete_many_sheets(coll) ==
    SelectSeq(coll, LAMBDA doc : doc.resource_type # "sheet")

\* db.cache.delete_many({})
delete_many(coll) == << >>

Min(a, b) == IF a <= b THEN a ELSE b

\* to_list(None): the whole cursor, no cap
to_list_uncapped(coll, n) == coll

\* cursor.to_list(n)
to_list(coll, n) == SubSeq(coll, 1, Min(Len(coll), n))

\* projection {'_id': 0, 'resource_type': 1, 'resource_id': 1, 'cached_at': 1}
Project(doc) ==
    [resource_type |-> doc.resource_type,
     resource_id |-> doc.resource_id,
     cached_at |-> doc.cached_at]

\* ------------------------------------------------------------- handlers
\* cache_doc built by cache_resource
CacheDoc(key, data, now) ==
    [resource_type |-> key[1], resource_id |-> key[2], data |-> data, cached_at |-> now]

\* whether cache_resource raises to its caller when update_one raised:
\* the except clause logs and returns
cache_resource_raises(fault) == FALSE

\* save_sheet_cache / save_drive_cache after awaiting cache_resource
save_cache_response(raised) ==
    IF raised
    THEN [op |-> "put", status |-> 500, success |-> FALSE]
    ELSE [op |-> "put", status |-> 200, success |-> TRUE]

\* get_cached_resource: the document, or None when find_one found nothing or raised
get_cached_resource(coll, key, fault) ==
    IF fault THEN None ELSE find_one(coll, key)

\* Python truth value of the Optional[Dict] returned by get_cached_resource
Falsy(cached) == cached = None \/ DOMAIN cached = {}

DefaultData(key) == IF key[1] = "sheet" THEN "[]" ELSE "{folders:[],files:[]}"

DictGet(d, f, default) == IF f \in DOMAIN d THEN d[f] ELSE default

\* get_cached_sheet_data / get_cached_drive_folder
get_cached_response(key, cached) ==
    IF Falsy(cached)
    THEN [op |-> "get", status |-> 404, success |-> FALSE]
    ELSE [op |-> "get", status |-> 200, success |-> TRUE,
          data |-> DictGet(cached, "data", DefaultData(key)),
          cached_at |-> DictGet(cached, "cached_at", NoTime)]

\* get_cache_status
get_cache_status_response(coll, fault) ==
    IF fault
    THEN [op |-> "status", status |-> 500, success |-> FALSE]
    ELSE LET raw == to_list(coll, StatusLimit)
             cached_items == [i \in 1..Len(raw) |-> Project(raw[i])]
         IN [op |-> "status", status |-> 200, success |-> TRUE,
             cached_items |-> cached_items, total_cached |-> Len(cached_items)]

NoResp == [op |-> "none"]
NoObs == [fault |-> FALSE]
NoReq == [key |-> << >>]

\* ----------------------------------------------------------------- Init
Init ==
    /\ cache = << >>
    /\ clock = 0
    /\ pc = [p \in Procs |-> "idle"]
    /\ req = [p \in Procs |-> NoReq]
    /\ resp = NoResp
    /\ obs = NoObs
    /\ lastCommitted = [k \in Keys |-> None]
    /\ lastAcked = [k \in Keys |-> None]
    /\ everCommitted = {}
    /\ sinceClear = FALSE


\* --------------------------------------------------- put (POST /cache/..)
InFlight(key) == {q \in Procs : pc[q] # "idle" /\ req[q].key = key}

\* save_*_cache calls cache_resource, which reads the time, builds cache_doc
\* and awaits update_one
PutBegin(p, key, data) ==
    /\ pc[p] = "idle"
    /\ clock < MaxClock
    /\ clock' = clock + 1
    /\ req' = [req EXCEPT ![p] =
                 [key |-> key,
                  doc |-> CacheDoc(key, data, clock + 1),
                  prev |-> IF InFlight(key) = {} THEN lastAcked[key] ELSE None]]
    /\ pc' = [pc EXCEPT ![p] = "upsert"]
    /\ UNCHANGED <<cache, resp, obs, lastCommitted, lastAcked,
                   everCommitted, sinceClear>>

\* the rest of cache_resource and of the route after update_one returned
PutReturn(p, fault) ==
    /\ pc' = [pc EXCEPT ![p] = "idle"]
    /\ resp' = save_cache_response(cache_resource_raises(fault))
    /\ obs' = [fault |-> fault, key |-> req[p].key]
    /\ lastAcked' = IF save_cache_response(cache_resource_raises(fault)).success
                    THEN [lastAcked EXCEPT ![req[p].key] = req[p].doc]
                    ELSE lastAcked
    /\ req' = [req EXCEPT ![p] = NoReq]
    /\ UNCHANGED clock

Committed(p) ==
    /\ lastCommitted' = [lastCommitted EXCEPT ![req[p].key] = req[p].doc]
    /\ everCommitted' = everCommitted \cup {req[p].key}
    /\ sinceClear' = FALSE

\* update_one: the filter matches, the first match is updated in one step
UpsertMatched(p) ==
    /\ pc[p] = "upsert"
    /\ Matching(cache, req[p].key) # {}
    /\ cache' = update_matched(cache, req[p].key, req[p].doc)
    /\ Committed(p)
    /\ PutReturn(p, FALSE)

\* update_one with upsert=True: the filter matches nothing.  The collection
\* has no unique index on (resource_type, resource_id), so the insert that
\* follows is not serialised against other upserts of the same key.
UpsertMiss(p) ==
    /\ pc[p] = "upsert"
    /\ Matching(cache, req[p].key) = {}
    /\ pc' = [pc EXCEPT ![p] = "insert"]
    /\ UNCHANGED <<cache, clock, req, resp, obs, lastCommitted, lastAcked,
                   everCommitted, sinceClear>>

UpsertInsert(p) ==
    /\ pc[p] = "insert"
    /\ cache' = upsert_insert(cache, req[p].doc)
    /\ Committed(p)
    /\ PutReturn(p, FALSE)

\* update_one raises (store unreachable, write rejected): nothing is written
UpsertFault(p) ==
    /\ pc[p] = "upsert"
    /\ PutReturn(p, TRUE)
    /\ UNCHANGED <<cache, lastCommitted, everCommitted, sinceClear>>

\* ------------------------------------------- get (GET /cache/sheets/.., ..)
Get(p, key, fault) ==
    /\ pc[p] = "idle"
    /\ resp' = get_cached_response(key, get_cached_resource(cache, key, fault))
    /\ obs' = [fault |-> fault, key |-> key,
               ever |-> key \in everCommitted,
               sinceClear |-> sinceClear,
               acked |-> lastAcked[key],
               committed |-> lastCommitted[key],
               quiet |-> InFlight(key) = {}]
    /\ UNCHANGED <<cache, clock, pc, req, lastCommitted, lastAcked,
                   everCommitted, sinceClear>>

GetOk(p, key) == Get(p, key, FALSE)

\* find_one raises
GetFault(p, key) == Get(p, key, TRUE)

\* ------------------------------------------------- GET /cache/status
Status(p, fault) ==
    /\ pc[p] = "idle"
    /\ resp' = get_cache_status_response(cache, fault)
    /\ obs' = [fault |-> fault, sinceClear |-> sinceClear, stored |-> Len(cache)]
    /\ UNCHANGED <<cache, clock, pc, req, lastCommitted, lastAcked,
                   everCommitted, sinceClear>>

StatusOk(p) == Status(p, FALSE)

StatusFault(p) == Status(p, TRUE)

\* ------------------------------------------- scripts/clear_cache.py
\* clear_backend_cache: True after delete_many, False from the except clause
clear_backend_cache_returns(fault) == ~fault

\* main discards the value of asyncio.run(clear_backend_cache()) and prints
\* "3. Backend MongoDB cache cleared" in its summary
main_reports_cleared(returned) == TRUE

ClearRun(fault) ==
    /\ cache' = IF fault THEN cache ELSE delete_many(cache)
    /\ resp' = [op |-> "clear",
                error_printed |-> ~clear_backend_cache_returns(fault),
                reported_cleared |-> main_reports_cleared(clear_backend_cache_returns(fault))]
    /\ obs' = [fault |-> fault, before |-> Len(cache),
               after |-> IF fault THEN Len(cache) ELSE Len(delete_many(cache))]
    /\ sinceClear' = IF fault THEN sinceClear ELSE TRUE
    /\ lastCommitted' = IF fault THEN lastCommitted ELSE [k \in Keys |-> None]
    /\ lastAcked' = IF fault THEN lastAcked ELSE [k \in Keys |-> None]
    /\ UNCHANGED <<clock, pc, req, everCommitted>>

ClearOk == ClearRun(FALSE)

ClearFault == ClearRun(TRUE)

\* ------------------------------------------------------------------ Next
Next ==
    \/ \E p \in Procs, key \in Keys : \E data \in PayloadsOf(key) : PutBegin(p, key, data)
    \/ \E p \in Procs : UpsertMatched(p)
    \/ \E p \in Procs : UpsertMiss(p)
    \/ \E p \in Procs : UpsertInsert(p)
    \/ \E p \in Procs : UpsertFault(p)
    \/ \E p \in Procs, key \in Keys : GetOk(p, key)
    \/ \E p \in Procs, key \in Keys : GetFault(p, key)
    \/ \E p \in Procs : StatusOk(p)
    \/ \E p \in Procs : StatusFault(p)
    \/ ClearOk
    \/ ClearFault

Spec == Init /\ [][Next]_vars


\* ------------------------------------------- the status listing at its cap
\* A collection of n entries with distinct keys, as n puts of fresh keys leave it
\* (resource_id i stands for the i-th distinct sheet name).  No put or clear
\* runs under SpecStatus, so the history variables keep their initial values.
Fill(n) == [i \in 1..n |-> CacheDoc(<<"sheet", i>>, "[]", i)]

InitStatus ==
    /\ cache \in {Fill(n) : n \in 0..MaxDocs}
    /\ clock = Len(cache)
    /\ pc = [p \in Procs |-> "idle"]
    /\ req = [p \in Procs |-> NoReq]
    /\ resp = NoResp
    /\ obs = NoObs
    /\ lastCommitted = [k \in Keys |-> None]
    /\ lastAcked = [k \in Keys |-> None]
    /\ everCommitted = {}
    /\ sinceClear = FALSE

NextStatus ==
    \/ \E p \in Procs : StatusOk(p)
    \/ \E p \in Procs : StatusFault(p)

SpecStatus == InitStatus /\ [][NextStatus]_vars

\* ================================================================ claims

\* C1: at most one stored entry per (resource_type, resource_id), in every
\* reachable state, also with upserts of the same key in flight together.
KeyUniqueness ==
    \A i, j \in 1..Len(cache) : KeyOf(cache[i]) = KeyOf(cache[j]) => i = j

\* C2: once every put to a key has completed, a get of the key returns the data
\* and cached_at of the put the store committed last.
LastWriteWins ==
    (resp.op = "get" /\ ~obs.fault /\ obs.quiet /\ obs.committed # None)
        => /\ resp.status = 200
           /\ resp.data = obs.committed.data
           /\ resp.cached_at = obs.committed.cached_at

\* C3: a read whose lookup failed with a storage fault gives the caller an
\* outcome different from the outcome of a read of a key that has no entry.
FaultDistinctFromNotFound ==
    (resp.op = "get" /\ obs.fault)
        => resp # get_cached_response(obs.key, get_cached_resource(<< >>, obs.key, FALSE))

\* C4: a put whose storage upsert failed is never answered with success.
WriteFaultReported ==
    (resp.op = "put" /\ obs.fault) => (resp.status # 200 /\ ~resp.success)

\* C5: with storage working, a get of a key for which no put has ever committed
\* is answered NotFound (404): no success response, no payload.
MissIsNotFound ==
    (resp.op = "get" /\ ~obs.fault /\ ~obs.ever)
        => (resp.status = 404 /\ ~resp.success /\ "data" \notin DOMAIN resp)

\* C5 witness: the collection holds an entry of another key, and a get of a key
\* never written was answered NotFound.
MissIsNotFoundWitness ==
    /\ resp.op = "get" /\ ~obs.fault /\ ~obs.ever
    /\ resp.status = 404
    /\ cache # << >>

\* C6: after a successful clear and until a later put commits, every get is
\* answered NotFound, the status listing is empty with total_cached 0, and the
\* collection holds no entry.
ClearCompleteness ==
    /\ sinceClear => cache = << >>
    /\ (resp.op = "get" /\ ~obs.fault /\ obs.sinceClear) => resp.status = 404
    /\ (resp.op = "status" /\ ~obs.fault /\ obs.sinceClear)
           => (resp.cached_items = << >> /\ resp.total_cached = 0)

\* C6 witness: a get of a previously written key, made after a clear and before
\* any later commit, was answered NotFound.
ClearCompletenessWitness ==
    /\ resp.op = "get" /\ ~obs.fault /\ obs.sinceClear
    /\ obs.ever
    /\ resp.status = 404

\* C7: a get that follows a put answered with success, with no write to the key
\* in between, returns that put's data and cached_at.
PutGetRoundTrip ==
    (resp.op = "get" /\ ~obs.fault /\ obs.quiet /\ obs.acked # None)
        => /\ resp.status = 200
           /\ resp.data = obs.acked.data
           /\ resp.cached_at = obs.acked.cached_at

\* C8: when a put of payload D completes right after a completed put of the same
\* D to the same key, the key has exactly one entry, with data D and the
\* cached_at of the second put, and nothing else in the store has changed.
IdempotentPut ==
    [][\A p \in Procs :
         ( /\ pc[p] # "idle" /\ pc'[p] = "idle"
           /\ req[p].prev # None
           /\ req[p].prev.data = req[p].doc.data
           /\ lastAcked[req[p].key] = req[p].prev
           /\ InFlight(req[p].key) = {p} )
         => /\ Cardinality(Matching(cache', req[p].key)) = 1
            /\ find_one(cache', req[p].key) = req[p].doc
            /\ Len(cache') = Len(cache)
            /\ \A i \in 1..Len(cache) :
                   KeyOf(cache[i]) # req[p].key => cache'[i] = cache[i]]_vars

\* C9: the status listing holds min(n, 100) items, the i-th being the key and
\* cached_at of the i-th stored entry without its data, and total_cached is the
\* number of items.
StatusListing ==
    (resp.op = "status" /\ ~obs.fault)
        => /\ resp.status = 200
           /\ Len(resp.cached_items) = Min(Len(cache), StatusLimit)
           /\ resp.total_cached = Len(resp.cached_items)
           /\ \A i \in 1..Len(resp.cached_items) :
                  /\ DOMAIN resp.cached_items[i] =
                         {"resource_type", "resource_id", "cached_at"}
                  /\ resp.cached_items[i].resource_type = cache[i].resource_type
                  /\ resp.cached_items[i].resource_id = cache[i].resource_id
                  /\ resp.cached_items[i].cached_at = cache[i].cached_at

\* C9 witness: a listing of a collection larger than the cap.
StatusListingWitness ==
    /\ resp.op = "status" /\ ~obs.fault
    /\ Len(cache) > StatusLimit
    /\ resp.total_cached = StatusLimit

\* C10: a run of the clear script whose delete failed says so, does not report
\* the backend cache as cleared, and leaves the entries as they were.
ClearFaultReported ==
    (resp.op = "clear" /\ obs.fault)
        => /\ resp.error_printed
           /\ ~resp.reported_cleared
           /\ obs.after = obs.before

====
